---- MODULE Spec2Model ----
(***************************************************************************)
(* Entry Service of the daily-journal application: the POST, GET, DELETE   *)
(* and PUT handlers of /api/entry over the tables Entry and                *)
(* EntryCompetency.  A handler is one action; the SQL statements it runs   *)
(* are operators on the tables, applied in the order the handler awaits    *)
(* them.  A second specification, SpecStatements, runs the handlers one    *)
(* SQL statement at a time, so that the statements of requests in flight   *)
(* interleave.  A third, SpecView, is the Thoughts page of one user in     *)
(* front of the whole handlers.                                            *)
(*                                                                         *)
(* A value that may be absent (JS undefined, SQL NULL, JSON null) is a     *)
(* sequence of length 0 or 1: <<>> is absent, <<v>> is v.                  *)
(***************************************************************************)
EXTENDS Integers, Sequences, FiniteSets

VARIABLES Entry, EntryCompetency, nextId, req, resp, hist,
          handler, foreignKey,
          thoughts, editing, newText, newCompetencies, pending, event, told

\* the state of the Thoughts page, and what is recorded about it
page == <<thoughts, editing, newText, newCompetencies, pending, event, told>>

vars == <<Entry, EntryCompetency, nextId, req, resp, hist, handler, foreignKey,
          page>>

(***************************************************************************)
(* Bounds of the model.                                                    *)
(***************************************************************************)
\* number of ids the AUTO_INCREMENT counter of Entry hands out
MaxId == 2
\* number of rows of the Competency catalog
NumCompetencies == 2
\* number of requests in flight in SpecStatements
MaxHandlers == 2
\* number of DELETE and PUT requests the Thoughts page sends in SpecView
MaxFetches == 2

Absent == <<>>
Some(v) == <<v>>

Users == {"ann", "bob"}
Texts == {"t1", "t2"}

\* rows of the Competency reference table (ids only: skill and description
\* are never read by the handlers)
Competency == 1..NumCompetencies

(***************************************************************************)
(* Sessions, as getServerSession returns them: null, a session without a   *)
(* user email, or a session with one.                                      *)
(***************************************************************************)
Sessions ==
    {[present |-> FALSE, email |-> ""], [present |-> TRUE, email |-> ""]}
        \cup {[present |-> TRUE, email |-> u] : u \in Users}

\* Authenticated with a fault: the email of the session is not looked at
AuthenticatedWithoutEmail(session) == session.present

\* the negation of (!session || !session.user?.email)
Authenticated(session) == session.present /\ session.email # ""

(***************************************************************************)
(* Request URLs.  A pathname is a sequence of tokens, "/" being the        *)
(* separator; split('/') and pop() are computed as JS computes them.       *)
(***************************************************************************)
Digits == <<"1", "2", "3", "4", "5", "6", "7", "8", "9">>
IdStr(i) == Digits[i]

CollectionPath == <<"/", "api", "/", "entry">>

Paths ==
    {CollectionPath, CollectionPath \o <<"/">>}
        \cup {CollectionPath \o <<"/", IdStr(i)>> : i \in 1..MaxId}

RECURSIVE SplitFrom(_, _, _)
\* segs: the segments closed so far; cur: the segment being read
SplitFrom(p, segs, cur) ==
    IF p = <<>> THEN Append(segs, cur)
    ELSE IF Head(p) = "/" THEN SplitFrom(Tail(p), Append(segs, cur), "")
    ELSE SplitFrom(Tail(p), segs, Head(p))

Split(p) == SplitFrom(p, <<>>, "")

Pop(s) == s[Len(s)]

\* url.pathname.split('/').pop()
PathEntryID(p) == Pop(Split(p))

\* the number MySQL reads in a string parameter compared with an INT
\* column; Absent when the string is not a number
SqlNumber(s) ==
    IF \E i \in 1..Len(Digits) : Digits[i] = s
    THEN Some(CHOOSE i \in 1..Len(Digits) : Digits[i] = s)
    ELSE Absent

(***************************************************************************)
(* Request bodies: {text, competencyIDs}, either of which may be missing.  *)
(***************************************************************************)
RECURSIVE SeqsOver(_, _)
\* the sequences over S of length at most n
SeqsOver(S, n) ==
    IF n = 0 THEN {<<>>}
    ELSE LET shorter == SeqsOver(S, n - 1)
         IN  shorter \cup {Append(s, x) : s \in shorter, x \in S}

\* the lists of competency ids a request carries, in ascending order; a body
\* without text stands for every body the handler cannot bind a text from
\* (no JSON at all, or JSON without the field)
CompetencyIDLists ==
    {s \in SeqsOver(Competency, NumCompetencies) :
        \A i, j \in 1..Len(s) : i < j => s[i] < s[j]}

NoBody == [text |-> Absent, competencyIDs |-> Absent]

\* the handlers read competencyIDs only after they have bound the text, so
\* one body without text stands for all of them
Bodies ==
    {NoBody} \cup
        [text : {Some(t) : t \in Texts},
         competencyIDs : {Absent} \cup {Some(c) : c \in CompetencyIDLists}]

(***************************************************************************)
(* SQL statements, as operators on the tables.  E is the Entry table, a    *)
(* set of rows; EC is the EntryCompetency table, its rows in insertion     *)
(* order (the source shows no key on it).                                  *)
(***************************************************************************)
\* INSERT INTO Entry (user, text) VALUES (?, ?), insertId being id
InsertEntry(E, id, user, text) ==
    E \cup {[id |-> id, user |-> user, text |-> text]}

\* INSERT INTO EntryCompetency (entryID, competencyID) VALUES (?, ?)
InsertEntryCompetency(EC, entryID, compID) ==
    Append(EC, [entryID |-> entryID, competencyID |-> compID])

RECURSIVE InsertCompetencies(_, _, _)
\* for (const compID of competencyIDs) { INSERT INTO EntryCompetency ... }
InsertCompetencies(EC, entryID, competencyIDs) ==
    IF competencyIDs = <<>> THEN EC
    ELSE InsertCompetencies(InsertEntryCompetency(EC, entryID, Head(competencyIDs)),
                            entryID, Tail(competencyIDs))

\* DELETE FROM EntryCompetency WHERE entryID = ?
DeleteEntryCompetency(EC, entryID) ==
    LET Keep(row) == row.entryID # entryID IN SelectSeq(EC, Keep)

\* OwnedRows with a fault: the WHERE clause without "AND user = ?"
OwnedRowsOfAnyUser(E, id, user) == {e \in E : e.id = id}

\* the rows of E that "WHERE id = ? AND user = ?" selects
OwnedRows(E, id, user) == {e \in E : e.id = id /\ e.user = user}

\* DeleteEntry with a fault: the user parameter bound to a field the session
\* does not carry, so that the statement matches no row
DeleteEntryMatchesNoRow(E, id, user) == E \ OwnedRows(E, id, "")

\* DELETE FROM Entry WHERE id = ? AND user = ?
DeleteEntry(E, id, user) == E \ OwnedRows(E, id, user)

\* UpdateEntry with a fault: the WHERE clause without "id = ?"
UpdateEntryOfAnyId(E, text, id, user) ==
    {IF e.user = user THEN [e EXCEPT !.text = text] ELSE e : e \in E}

\* UPDATE Entry SET text = ? WHERE id = ? AND user = ?
UpdateEntry(E, text, id, user) ==
    (E \ OwnedRows(E, id, user))
        \cup {[e EXCEPT !.text = text] : e \in OwnedRows(E, id, user)}

\* ResultSetHeader.affectedRows of the DELETE and of the UPDATE (mysql2
\* connects with FOUND_ROWS: an UPDATE counts the rows it matches)
AffectedRows(E, id, user) == Cardinality(OwnedRows(E, id, user))

(***************************************************************************)
(* The SELECT of GET.                                                      *)
(***************************************************************************)
\* WhereUser with a fault: the SELECT without its WHERE clause
WhereAnyUser(E, userEmail) == E

\* WHERE e.user = ?
WhereUser(E, userEmail) == {e \in E : e.user = userEmail}

\* LEFT JOIN Competency c ON ec.competencyID = c.id : c.id, or NULL
CompetencyId(competencyID) ==
    IF competencyID \in Competency THEN Some(competencyID) ELSE Absent

\* FROM Entry e LEFT JOIN EntryCompetency ec ON e.id = ec.entryID
\* LEFT JOIN Competency c ...: one row per matching ec row, and one row of
\* NULLs for an entry that no ec row matches.  k is the position of the ec
\* row in the table, 0 for the row of NULLs.
JoinedRows(E, EC) ==
    UNION {
        LET matches == {k \in 1..Len(EC) : EC[k].entryID = e.id}
        IN  IF matches = {}
            THEN {[id |-> e.id, text |-> e.text, k |-> 0, cid |-> Absent]}
            ELSE {[id |-> e.id, text |-> e.text, k |-> k,
                   cid |-> CompetencyId(EC[k].competencyID)] : k \in matches}
        : e \in E}

RECURSIVE ArrayAgg(_)
\* JSON_ARRAYAGG(c.id) over the rows of one group, in table order; it keeps
\* the NULLs
ArrayAgg(rows) ==
    IF rows = {} THEN <<>>
    ELSE LET first == CHOOSE r \in rows : \A o \in rows : r.k <= o.k
         IN  <<first.cid>> \o ArrayAgg(rows \ {first})

\* GROUP BY e.id, selecting e.id, e.text, JSON_ARRAYAGG(c.id) AS competencies
GroupById(joined) ==
    {[id |-> i,
      text |-> (CHOOSE r \in joined : r.id = i).text,
      competencies |-> ArrayAgg({r \in joined : r.id = i})]
        : i \in {r.id : r \in joined}}

RECURSIVE OrderByIdAsc(_)
\* OrderByIdDesc with a fault: ORDER BY e.id, without DESC
OrderByIdAsc(rows) ==
    IF rows = {} THEN <<>>
    ELSE LET low == CHOOSE r \in rows : \A o \in rows : r.id <= o.id
         IN  <<low>> \o OrderByIdAsc(rows \ {low})

RECURSIVE OrderByIdDesc(_)
\* ORDER BY e.id DESC
OrderByIdDesc(rows) ==
    IF rows = {} THEN <<>>
    ELSE LET top == CHOOSE r \in rows : \A o \in rows : r.id >= o.id
         IN  <<top>> \o OrderByIdDesc(rows \ {top})

SelectEntries(E, EC, userEmail) ==
    OrderByIdDesc(GroupById(JoinedRows(WhereUser(E, userEmail), EC)))

(***************************************************************************)
(* Requests, responses and the record of what the clients were told.       *)
(***************************************************************************)
\* req is the request the last handler served, as far as the handler read
\* it: the session always, the URL and the body's text once the handler got
\* to them (NoPath and Absent before that)
NoPath == <<>>

Request(op, session, path, text) ==
    [op |-> op, session |-> session, path |-> path, text |-> text]

\* NextResponse.json(...): the status, and of the body the fields the
\* properties read (POST: id; GET: the array of entries)
Response(status, id, rows) == [status |-> status, id |-> id, rows |-> rows]

EntryIds == 1..MaxId

\* hist is a history variable, read by no handler:
\*   posted[i]  the caller whose POST inserted entry i, until a DELETE of i
\*              answers 200
\*   text[i]    the text of that POST, or of the latest PUT of that caller
\*              on i that carried a text
\*   tags[i]    the competencyIDs of the latest POST or PUT on i that
\*              answered 200, unless a PUT that answered 500 or a DELETE
\*              has run on i since
\*   deleted    the ids of the DELETEs that answered 200
HistInit ==
    [posted |-> [i \in EntryIds |-> Absent],
     text |-> [i \in EntryIds |-> Absent],
     tags |-> [i \in EntryIds |-> Absent],
     deleted |-> {}]

\* handler[h] is the invocation h of a route handler in SpecStatements: the
\* request it serves, the statement it awaits next (pc, and next for the
\* position in competencyIDs), and once it has returned its status and the
\* rows of a GET.  Two fields are history, read by no handler: removed is
\* the number of tag rows the tag delete of a PUT removed, during the PUTs
\* that sat between their tag delete and their first tag insert when a GET
\* ran its SELECT.
Handlers == 1..MaxHandlers

Idle ==
    [op |-> "none", user |-> "", id |-> 0, text |-> "", competencyIDs |-> <<>>,
     pc |-> "idle", next |-> 0, status |-> 0, rows |-> <<>>,
     removed |-> 0, during |-> {}]

(***************************************************************************)
(* The Thoughts page as React constructs it: the useState values, and the  *)
(* fetches.  pending[f] is fetch f of the page: the request, the values of *)
(* the render in which the handler was called (its closure: thoughts, and  *)
(* for a save editing.id, newText and newCompetencies), and where the      *)
(* fetch is: "sent", "answered" with res.ok, or "done" once the handler    *)
(* has run to its end.  Fetch 0 is the one of loadThoughts.                *)
(*                                                                         *)
(* Of the Thought that editing holds the page reads the id only: editing   *)
(* is Absent for null and Some(id) otherwise.                              *)
(*                                                                         *)
(* event and told are read by no handler.  event is what the last step     *)
(* was, as far as the properties tell steps apart: "edit" for handleEdit,  *)
(* "toggle" for handleCompetencyChange, "cancel" for the Cancel button,    *)
(* "other" for the rest.  told.deleted holds the ids whose DELETE the page *)
(* saw answered ok, told.saved[i] the text and tags of the last save of i  *)
(* the page saw answered ok.                                               *)
(***************************************************************************)
Fetches == 0..MaxFetches

NoFetch ==
    [method |-> "none", id |-> 0, text |-> "", competencyIDs |-> <<>>,
     thoughts |-> <<>>, at |-> "free", ok |-> FALSE, data |-> <<>>]

PageInit ==
    /\ thoughts = <<>>
    /\ editing = Absent
    /\ newText = ""
    /\ newCompetencies = <<>>
    /\ pending = [f \in Fetches |-> NoFetch]
    /\ event = "none"
    /\ told = [deleted |-> {}, saved |-> [i \in EntryIds |-> Absent]]

\* Spec runs whole handlers and has no invocation in flight.  No whole
\* handler inserts a tag row of a missing entry or deletes an entry that has
\* tag rows, so a foreign key on EntryCompetency.entryID makes no difference
\* to Spec, which is written without one.
Init ==
    /\ Entry = {}
    /\ EntryCompetency = <<>>
    /\ nextId = 1
    /\ req = Request("none", [present |-> FALSE, email |-> ""], NoPath, Absent)
    /\ resp = Response(0, Absent, <<>>)
    /\ hist = HistInit
    /\ handler = [h \in Handlers |-> Idle]
    /\ foreignKey = FALSE
    /\ PageInit

(***************************************************************************)
(* POST /api/entry                                                         *)
(***************************************************************************)
POST(session, body) ==
    IF ~Authenticated(session)
    THEN /\ req' = Request("POST", session, NoPath, Absent)
         /\ resp' = Response(401, Absent, <<>>)
         /\ UNCHANGED <<Entry, EntryCompetency, nextId, hist>>
    ELSE /\ req' = Request("POST", session, NoPath, body.text)
         /\ IF body.text = Absent
            \* req.json() throws, or execute() throws on the undefined bind
            \* parameter: nothing has been written
            THEN /\ resp' = Response(500, Absent, <<>>)
                 /\ UNCHANGED <<Entry, EntryCompetency, nextId, hist>>
            ELSE /\ nextId <= MaxId
                 /\ LET entryID == nextId
                    IN  /\ Entry' = InsertEntry(Entry, entryID, session.email,
                                                body.text[1])
                        /\ nextId' = nextId + 1
                        /\ hist' = [hist EXCEPT
                                      !.posted[entryID] = Some(session.email),
                                      !.text[entryID] = body.text,
                                      !.tags[entryID] = body.competencyIDs]
                        /\ IF body.competencyIDs = Absent
                           \* for...of over undefined throws after the insert
                           THEN /\ resp' = Response(500, Absent, <<>>)
                                /\ UNCHANGED EntryCompetency
                           ELSE /\ EntryCompetency' =
                                     InsertCompetencies(EntryCompetency, entryID,
                                                        body.competencyIDs[1])
                                /\ resp' = Response(200, Some(entryID), <<>>)

(***************************************************************************)
(* GET /api/entry                                                          *)
(***************************************************************************)
\* GetResponse with a fault: the session check of the other three handlers
GetResponseOrUnauthorized(E, EC, session) ==
    IF ~Authenticated(session)
    THEN Response(401, Absent, <<>>)
    ELSE Response(200, Absent, SelectEntries(E, EC, session.email))

GetResponse(E, EC, session) ==
    IF ~Authenticated(session)
    THEN Response(200, Absent, <<>>)
    ELSE Response(200, Absent, SelectEntries(E, EC, session.email))

GET(session) ==
    /\ req' = Request("GET", session, NoPath, Absent)
    /\ resp' = GetResponse(Entry, EntryCompetency, session)
    /\ UNCHANGED <<Entry, EntryCompetency, nextId, hist>>

(***************************************************************************)
(* DELETE and PUT take the entry id from the last segment of the path.     *)
(* A segment that is no number is compared as 0 by a server outside strict *)
(* SQL mode and makes the statement fail on a server in strict mode        *)
(* (error 1292): sqlStrict is which of the two this server does.           *)
(***************************************************************************)
IdValue(entryID) ==
    IF SqlNumber(entryID) = Absent THEN 0 ELSE SqlNumber(entryID)[1]

CoercionFails(entryID, sqlStrict) == SqlNumber(entryID) = Absent /\ sqlStrict

\* what a DELETE on id does to the history
HistDelete(h, id, affectedRows) ==
    IF id \notin EntryIds THEN h
    ELSE IF affectedRows = 0 THEN [h EXCEPT !.tags[id] = Absent]
    ELSE [h EXCEPT !.tags[id] = Absent, !.posted[id] = Absent,
                   !.text[id] = Absent, !.deleted = @ \cup {id}]

DELETE(session, path, sqlStrict) ==
    /\ UNCHANGED nextId
    /\ IF ~Authenticated(session)
       THEN /\ req' = Request("DELETE", session, NoPath, Absent)
            /\ resp' = Response(401, Absent, <<>>)
            /\ UNCHANGED <<Entry, EntryCompetency, hist>>
       ELSE LET entryID == PathEntryID(path)
                id == IdValue(entryID)
                affectedRows == AffectedRows(Entry, id, session.email)
            IN  /\ req' = Request("DELETE", session, path, Absent)
                /\ IF entryID = ""
                   THEN /\ resp' = Response(400, Absent, <<>>)
                        /\ UNCHANGED <<Entry, EntryCompetency, hist>>
                   ELSE IF CoercionFails(entryID, sqlStrict)
                   THEN /\ resp' = Response(500, Absent, <<>>)
                        /\ UNCHANGED <<Entry, EntryCompetency, hist>>
                   ELSE /\ EntryCompetency' =
                             DeleteEntryCompetency(EntryCompetency, id)
                        /\ Entry' = DeleteEntry(Entry, id, session.email)
                        /\ resp' = Response(IF affectedRows = 0 THEN 404 ELSE 200,
                                            Absent, <<>>)
                        /\ hist' = HistDelete(hist, id, affectedRows)

PUT(session, path, body, sqlStrict) ==
    /\ UNCHANGED nextId
    /\ IF ~Authenticated(session)
       THEN /\ req' = Request("PUT", session, NoPath, Absent)
            /\ resp' = Response(401, Absent, <<>>)
            /\ UNCHANGED <<Entry, EntryCompetency, hist>>
       ELSE LET entryID == PathEntryID(path)
                id == IdValue(entryID)
                affectedRows == AffectedRows(Entry, id, session.email)
                cleared == DeleteEntryCompetency(EntryCompetency, id)
                \* the caller's PUT carried a text for an entry POST gave it
                carried == IF id \in EntryIds /\ hist.posted[id] = Some(session.email)
                           THEN [hist EXCEPT !.text[id] = body.text]
                           ELSE hist
            IN  IF entryID = ""
                THEN /\ req' = Request("PUT", session, path, Absent)
                     /\ resp' = Response(400, Absent, <<>>)
                     /\ UNCHANGED <<Entry, EntryCompetency, hist>>
                ELSE /\ req' = Request("PUT", session, path, body.text)
                     /\ IF body.text = Absent \/ CoercionFails(entryID, sqlStrict)
                        \* req.json() or the UPDATE throws: nothing is written
                        THEN /\ resp' = Response(500, Absent, <<>>)
                             /\ UNCHANGED <<Entry, EntryCompetency, hist>>
                        ELSE /\ Entry' = UpdateEntry(Entry, body.text[1], id,
                                                     session.email)
                             /\ IF affectedRows = 0
                                THEN /\ resp' = Response(404, Absent, <<>>)
                                     /\ hist' = carried
                                     /\ UNCHANGED EntryCompetency
                                ELSE IF body.competencyIDs = Absent
                                \* for...of over undefined throws after the
                                \* tag delete
                                THEN /\ EntryCompetency' = cleared
                                     /\ resp' = Response(500, Absent, <<>>)
                                     /\ hist' = [carried EXCEPT !.tags[id] = Absent]
                                ELSE /\ EntryCompetency' =
                                          InsertCompetencies(cleared, id,
                                                             body.competencyIDs[1])
                                     /\ resp' = Response(200, Absent, <<>>)
                                     /\ hist' = [carried EXCEPT
                                                   !.tags[id] = body.competencyIDs]

(***************************************************************************)
(* The requests.  An input that a handler returns before reading makes no  *)
(* difference to the step, so it is drawn from one value: the URL and the  *)
(* body of a caller without a session, the body of a PUT without an id     *)
(* segment, the SQL mode when the id segment is a number.                  *)
(***************************************************************************)
UrlsOf(session) == IF Authenticated(session) THEN Paths ELSE {NoPath}

BodiesOf(session) == IF Authenticated(session) THEN Bodies ELSE {NoBody}

PutBodiesOf(session, path) ==
    IF Authenticated(session) /\ PathEntryID(path) # "" THEN Bodies ELSE {NoBody}

SqlModes(path) ==
    IF SqlNumber(PathEntryID(path)) = Absent /\ PathEntryID(path) # ""
    THEN BOOLEAN ELSE {FALSE}

Post ==
    /\ \E session \in Sessions : \E body \in BodiesOf(session) : POST(session, body)
    /\ UNCHANGED <<handler, foreignKey, page>>

Get ==
    /\ \E session \in Sessions : GET(session)
    /\ UNCHANGED <<handler, foreignKey, page>>

Delete ==
    /\ \E session \in Sessions : \E path \in UrlsOf(session) :
          \E sqlStrict \in SqlModes(path) : DELETE(session, path, sqlStrict)
    /\ UNCHANGED <<handler, foreignKey, page>>

Put ==
    /\ \E session \in Sessions : \E path \in UrlsOf(session) :
          \E body \in PutBodiesOf(session, path), sqlStrict \in SqlModes(path) :
              PUT(session, path, body, sqlStrict)
    /\ UNCHANGED <<handler, foreignKey, page>>

Next == Post \/ Get \/ Delete \/ Put

Spec == Init /\ [][Next]_vars

(***************************************************************************)
(* Properties.  In an action formula req' and resp' are the request the    *)
(* step served and its answer; Entry and EntryCompetency are the tables    *)
(* before the step, Entry' and EntryCompetency' after it.                  *)
(***************************************************************************)
Caller(r) == r.session.email

\* the id the last path segment of request r names, Absent if it is no number
PathId(r) == SqlNumber(PathEntryID(r.path))

\* the competency ids attached to entry id
TagIds(EC, id) == {EC[k].competencyID : k \in {j \in 1..Len(EC) : EC[j].entryID = id}}

\* the positions of entry id in the array a GET answered
RowsOf(rows, id) == {k \in 1..Len(rows) : rows[k].id = id}

\* the array of competencies of a GET row holds exactly the ids of the list
SameIds(competencies, ids) ==
    /\ Len(competencies) = Len(ids)
    /\ {competencies[k] : k \in 1..Len(competencies)}
           = {Some(ids[k]) : k \in 1..Len(ids)}

\* a session of user u
SessionOf(u) == [present |-> TRUE, email |-> u]

\* C1: a request of an authenticated caller who does not own entry e leaves
\* e in the Entry table with its text, and leaves the set of competency ids
\* attached to e as it was.
C1_OnlyOwnerMutates ==
    [][\A e \in Entry :
          (Authenticated(req'.session) /\ Caller(req') # e.user)
              => /\ e \in Entry'
                 /\ TagIds(EntryCompetency', e.id) = TagIds(EntryCompetency, e.id)]_vars

\* C2: a DELETE of an authenticated caller on the id of an entry another
\* user owns answers 404, and a GET of the owner on the tables it leaves
\* returns the entry, once, with its text.
C2_ForeignDeleteIs404 ==
    [][\A e \in Entry :
          (/\ req'.op = "DELETE"
           /\ Authenticated(req'.session)
           /\ PathId(req') = Some(e.id)
           /\ Caller(req') # e.user)
              => /\ resp'.status = 404
                 /\ LET rows == GetResponse(Entry', EntryCompetency',
                                            SessionOf(e.user)).rows
                    IN  /\ Cardinality(RowsOf(rows, e.id)) = 1
                        /\ \A k \in RowsOf(rows, e.id) : rows[k].text = e.text]_vars

C2_Witness ==
    /\ req.op = "DELETE"
    /\ Authenticated(req.session)
    /\ resp.status = 404
    /\ \E e \in Entry : PathId(req) = Some(e.id) /\ e.user # Caller(req)

\* C3: after a GET of an authenticated caller, every entry of the caller
\* whose latest POST or PUT answered 200 (no failed PUT and no DELETE on it
\* since) carries in the answer exactly the competency ids of that POST or
\* PUT, the empty list included.
C3_FullReplace ==
    (req.op = "GET" /\ Authenticated(req.session))
        => \A e \in Entry :
              (e.user = Caller(req) /\ hist.tags[e.id] # Absent)
                  => \E k \in RowsOf(resp.rows, e.id) :
                        SameIds(resp.rows[k].competencies, hist.tags[e.id][1])

\* a PUT of an authenticated caller whose path ends in an id that names no
\* entry the caller owns
PutOnForeignId(r, E) ==
    /\ r.op = "PUT"
    /\ Authenticated(r.session)
    /\ PathId(r) # Absent
    /\ ~\E e \in E : e.id = PathId(r)[1] /\ e.user = Caller(r)

\* C4 as stated: such a PUT answers 404 and changes no Entry row and no
\* EntryCompetency row, whatever its body.
C4_PutForeignIdIs404 ==
    [][PutOnForeignId(req', Entry)
          => /\ resp'.status = 404
             /\ UNCHANGED <<Entry, EntryCompetency>>]_vars

\* C4 as amended: such a PUT changes no Entry row and no EntryCompetency
\* row; it answers 404 when its body carries a text, and 500 when it does
\* not.
C4_PutForeignIdChangesNothing ==
    [][PutOnForeignId(req', Entry)
          => /\ resp'.status = IF req'.text # Absent THEN 404 ELSE 500
             /\ UNCHANGED <<Entry, EntryCompetency>>]_vars

C4_Witness ==
    /\ PutOnForeignId(req, Entry)
    /\ req.text # Absent
    /\ resp.status = 404
    /\ \E e \in Entry : PathId(req) = Some(e.id) /\ TagIds(EntryCompetency, e.id) # {}

\* C5: a DELETE of an authenticated caller on the collection path
\* /api/entry answers 400 and changes no Entry row and no EntryCompetency
\* row.
C5_DeleteWithoutIdIs400 ==
    [][(req'.op = "DELETE" /\ Authenticated(req'.session) /\ req'.path = CollectionPath)
          => /\ resp'.status = 400
             /\ UNCHANGED <<Entry, EntryCompetency>>]_vars

\* C6: a DELETE of the owner on the id of an existing entry answers 200; a
\* DELETE on an id that a DELETE has answered 200 for answers 404 and
\* leaves both tables as they were.
C6_DeleteTwice ==
    [][\A i \in EntryIds :
          (req'.op = "DELETE" /\ Authenticated(req'.session) /\ PathId(req') = Some(i))
              => /\ (\E e \in Entry : e.id = i /\ e.user = Caller(req'))
                        => resp'.status = 200
                 /\ i \in hist.deleted
                        => /\ resp'.status = 404
                           /\ UNCHANGED <<Entry, EntryCompetency>>]_vars

\* the owner's DELETE has just been answered 404 on an id an earlier DELETE
\* was answered 200 for
C6_Witness ==
    /\ req.op = "DELETE"
    /\ Authenticated(req.session)
    /\ resp.status = 404
    /\ PathId(req) # Absent
    /\ PathId(req)[1] \in hist.deleted

\* C7: a POST that answers 200 returns the id of the row it inserted for
\* the caller with the posted text; and a GET of a caller returns, for
\* every entry the caller's POST inserted and no DELETE has answered 200
\* for, exactly one row with that id, carrying the text of the POST or of
\* the caller's latest PUT on it.
C7_PostedIdIsRetrievable ==
    [][/\ (req'.op = "POST" /\ resp'.status = 200)
            => /\ resp'.id # Absent
               /\ resp'.id[1] \notin {e.id : e \in Entry}
               /\ [id |-> resp'.id[1], user |-> Caller(req'), text |-> req'.text[1]]
                      \in Entry'
               /\ hist'.posted[resp'.id[1]] = Some(Caller(req'))
       /\ (req'.op = "GET" /\ Authenticated(req'.session))
            => \A i \in EntryIds :
                  hist'.posted[i] = Some(Caller(req'))
                      => /\ Cardinality(RowsOf(resp'.rows, i)) = 1
                         /\ \A k \in RowsOf(resp'.rows, i) :
                               Some(resp'.rows[k].text) = hist'.text[i]]_vars

\* a GET has returned an entry that a POST of its caller inserted, next to
\* an entry of another user
C7_Witness ==
    /\ req.op = "GET"
    /\ Authenticated(req.session)
    /\ \E k \in 1..Len(resp.rows) :
          /\ hist.posted[resp.rows[k].id] = Some(Caller(req))
          /\ Some(resp.rows[k].text) = hist.text[resp.rows[k].id]
    /\ \E e \in Entry : e.user # Caller(req)

\* C8: a GET of an authenticated user returns every entry the user owns
\* exactly once, and no entry of another user.
C8_GetReturnsOwnEntries ==
    (req.op = "GET" /\ Authenticated(req.session))
        => /\ \A e \in Entry :
                 e.user = Caller(req) => Cardinality(RowsOf(resp.rows, e.id)) = 1
           /\ \A k \in 1..Len(resp.rows) :
                 \E e \in Entry : e.id = resp.rows[k].id /\ e.user = Caller(req)

\* a GET of a user who owns an entry with several tags, while another user
\* owns an entry too
C8_Witness ==
    /\ req.op = "GET"
    /\ Authenticated(req.session)
    /\ \E e \in Entry :
          e.user = Caller(req) /\ Cardinality(TagIds(EntryCompetency, e.id)) > 1
    /\ \E e \in Entry : e.user # Caller(req)
    /\ resp.rows # <<>>

\* C9: the array a GET returns is in strictly descending order of id.
C9_GetSortedByIdDesc ==
    req.op = "GET"
        => \A k \in 1..(Len(resp.rows) - 1) : resp.rows[k].id > resp.rows[k + 1].id

\* a GET has returned several entries, one of them wiped of its tags after
\* its creation
C9_Witness ==
    /\ req.op = "GET"
    /\ Len(resp.rows) > 1
    /\ \E k \in 1..Len(resp.rows) : hist.tags[resp.rows[k].id] = Absent

\* C10: a GET of a caller without a session, or with a session without a
\* user email, answers 200 with an empty array.
C10_UnauthenticatedGetIsEmpty ==
    (req.op = "GET" /\ ~Authenticated(req.session))
        => resp.status = 200 /\ resp.rows = <<>>

C10_Witness ==
    /\ req.op = "GET"
    /\ req.session.present
    /\ ~Authenticated(req.session)
    /\ Entry # {}

\* getServerSession gave no session, or one without a user email
NoValidSession(session) == ~session.present \/ session.email = ""

\* C11: a POST, PUT or DELETE of a caller without a valid session answers
\* 401 and leaves the Entry and EntryCompetency tables (and the id counter)
\* as they were; the step is the handler's step for every body and every
\* path the request may carry.
C11_NoSessionIs401 ==
    [][(req'.op \in {"POST", "PUT", "DELETE"} /\ NoValidSession(req'.session))
          => /\ resp'.status = 401
             /\ UNCHANGED <<Entry, EntryCompetency, nextId>>
             /\ req'.op = "POST"
                   => \A body \in Bodies : POST(req'.session, body)
             /\ req'.op = "PUT"
                   => \A path \in Paths, body \in Bodies, sqlStrict \in BOOLEAN :
                          PUT(req'.session, path, body, sqlStrict)
             /\ req'.op = "DELETE"
                   => \A path \in Paths, sqlStrict \in BOOLEAN :
                          DELETE(req'.session, path, sqlStrict)]_vars

\* a PUT without a session was answered 401 while an entry with a tag is
\* stored
C11_Witness ==
    /\ req.op = "PUT"
    /\ NoValidSession(req.session)
    /\ resp.status = 401
    /\ \E e \in Entry : TagIds(EntryCompetency, e.id) # {}

\* the ids of the rows of table E
IdsOf(E) == {e.id : e \in E}

\* the rows of EntryCompetency attached to entries other than id, in order
TagRowsOfOthers(EC, id) == SelectSeq(EC, LAMBDA row : row.entryID # id)

\* C15: an entry id becomes active only by a POST, which takes a fresh id of
\* the counter; the row of an active id changes only by a PUT; an id leaves
\* the table only by a DELETE that answers 200, and is never in the table
\* again.  A PUT leaves the set of (id, owner) pairs of Entry as it was, and
\* every row of Entry and of EntryCompetency of an entry other than the one
\* its path names.
C15_LifecycleAndPutFrame ==
    [][/\ IdsOf(Entry') \ IdsOf(Entry) # {}
             => /\ req'.op = "POST"
                /\ IdsOf(Entry') \ IdsOf(Entry) = {nextId}
                /\ nextId' = nextId + 1
       /\ Entry' # Entry
             => \A e \in Entry : \A f \in Entry' :
                   (e.id = f.id /\ e # f) => (req'.op = "PUT" /\ e.user = f.user)
       /\ IdsOf(Entry) \ IdsOf(Entry') # {}
             => /\ req'.op = "DELETE"
                /\ resp'.status = 200
                /\ IdsOf(Entry) \ IdsOf(Entry') = {PathId(req')[1]}
       /\ \A i \in hist.deleted : i \notin IdsOf(Entry')
       /\ \A e \in Entry : e.id < nextId
       /\ (/\ req'.op = "PUT"
           /\ <<Entry, EntryCompetency>>' # <<Entry, EntryCompetency>>)
             => LET id == IF req'.path = NoPath THEN 0
                          ELSE IdValue(PathEntryID(req'.path))
                IN  /\ {<<e.id, e.user>> : e \in Entry'}
                          = {<<e.id, e.user>> : e \in Entry}
                    /\ \A e \in Entry : e.id # id => e \in Entry'
                    /\ TagRowsOfOthers(EntryCompetency', id)
                           = TagRowsOfOthers(EntryCompetency, id)]_vars

\* a PUT of the owner answered 200 on one entry after the DELETE of another
\* entry answered 200
C15_Witness ==
    /\ req.op = "PUT"
    /\ resp.status = 200
    /\ hist.deleted # {}
    /\ \E e \in Entry : e.id = PathId(req)[1] /\ e.id \notin hist.deleted

(***************************************************************************)
(* SpecStatements: the handlers one SQL statement at a time.  Every await  *)
(* of connection.execute is a step of its own, and the steps of the        *)
(* invocations in flight interleave in any order: the handlers share one   *)
(* connection and open no transaction.  The requests are those that reach  *)
(* the SQL statements: a caller with a session, a number as the id         *)
(* segment, a body with text and competencyIDs.  An invocation serves one  *)
(* request.                                                                *)
(*                                                                         *)
(* The schema is not part of the handlers.  foreignKey is whether          *)
(* EntryCompetency.entryID is declared a foreign key of Entry.id (without  *)
(* cascade): with it an insert of a tag row of a missing entry fails, and  *)
(* so does the delete of an entry that has tag rows.                       *)
(***************************************************************************)
\* the database when the first request arrives: empty, or holding one entry
\* that a POST of ann has stored
InitStatements ==
    /\ \/ /\ Entry = {}
          /\ EntryCompetency = <<>>
          /\ nextId = 1
       \/ \E competencyIDs \in CompetencyIDLists :
             /\ Entry = InsertEntry({}, 1, "ann", "t1")
             /\ EntryCompetency = InsertCompetencies(<<>>, 1, competencyIDs)
             /\ nextId = 2
    /\ req = Request("none", [present |-> FALSE, email |-> ""], NoPath, Absent)
    /\ resp = Response(0, Absent, <<>>)
    /\ hist = HistInit
    /\ handler = [h \in Handlers |-> Idle]
    /\ foreignKey \in BOOLEAN
    /\ PageInit

\* the constraint, where the schema declares it: a tag row of a missing
\* entry is refused, and so is the delete of an entry that tag rows name
RefusesInsert(E, entryID) == foreignKey /\ entryID \notin {e.id : e \in E}

RefusesDelete(EC, rows) ==
    foreignKey /\ \E e \in rows : \E k \in 1..Len(EC) : EC[k].entryID = e.id

\* invocation h awaits a statement
Running(h) == handler[h].pc \notin {"idle", "done"}

\* the handler returns NextResponse.json(..., {status})
Returned(r, status) == [r EXCEPT !.pc = "done", !.status = status]

\* a request arrives and is given to the first invocation that is free
Start(h, r) ==
    /\ handler[h].pc = "idle"
    /\ \A g \in Handlers : g < h => handler[g].pc # "idle"
    /\ handler' = [handler EXCEPT ![h] = r]
    /\ UNCHANGED <<Entry, EntryCompetency, nextId>>
    /\ UNCHANGED <<req, resp, hist, foreignKey, page>>

StartPOST(h, user, text, competencyIDs) ==
    Start(h, [Idle EXCEPT !.op = "POST", !.user = user, !.text = text,
                          !.competencyIDs = competencyIDs,
                          !.pc = "insertEntry"])

StartGET(h, user) ==
    Start(h, [Idle EXCEPT !.op = "GET", !.user = user, !.pc = "select"])

StartDELETE(h, user, id) ==
    Start(h, [Idle EXCEPT !.op = "DELETE", !.user = user, !.id = id,
                          !.pc = "deleteTags"])

StartPUT(h, user, id, text, competencyIDs) ==
    Start(h, [Idle EXCEPT !.op = "PUT", !.user = user, !.id = id,
                          !.text = text, !.competencyIDs = competencyIDs,
                          !.pc = "update"])

\* POST: INSERT INTO Entry (user, text), then entryID = insertId
PostInsertEntry(h) ==
    LET r == handler[h]
        entryID == nextId
    IN  /\ UNCHANGED <<req, resp, hist, foreignKey, page>>
        /\ r.op = "POST" /\ r.pc = "insertEntry"
        /\ nextId <= MaxId
        /\ Entry' = InsertEntry(Entry, entryID, r.user, r.text)
        /\ nextId' = nextId + 1
        /\ handler' = [handler EXCEPT ![h] =
                         IF r.competencyIDs = <<>>
                         THEN Returned([r EXCEPT !.id = entryID], 200)
                         ELSE [r EXCEPT !.id = entryID, !.pc = "insertTags",
                                        !.next = 1]]
        /\ UNCHANGED EntryCompetency

\* POST and PUT: one turn of the loop over competencyIDs
InsertTag(h) ==
    LET r == handler[h]
        compID == r.competencyIDs[r.next]
        inserted == [r EXCEPT !.next = @ + 1]
    IN  /\ UNCHANGED <<req, resp, hist, foreignKey, page>>
        /\ r.pc = "insertTags"
        /\ UNCHANGED <<Entry, nextId>>
        /\ IF RefusesInsert(Entry, r.id)
           THEN /\ handler' = [handler EXCEPT ![h] = Returned(r, 500)]
                /\ UNCHANGED EntryCompetency
           ELSE /\ EntryCompetency' =
                     InsertEntryCompetency(EntryCompetency, r.id, compID)
                /\ handler' = [handler EXCEPT ![h] =
                                 IF r.next = Len(r.competencyIDs)
                                 THEN Returned(inserted, 200)
                                 ELSE inserted]

\* the PUTs of user that have deleted a tag row and inserted none yet
BetweenDeleteAndInsert(user) ==
    {p \in Handlers : /\ handler[p].op = "PUT"
                      /\ handler[p].user = user
                      /\ handler[p].pc = "insertTags"
                      /\ handler[p].next = 1
                      /\ handler[p].removed > 0}

\* GET: the SELECT
GetSelect(h) ==
    LET r == handler[h]
    IN  /\ UNCHANGED <<req, resp, hist, foreignKey, page>>
        /\ r.op = "GET" /\ r.pc = "select"
        /\ handler' = [handler EXCEPT ![h] =
                         Returned([r EXCEPT
                                     !.rows = SelectEntries(Entry, EntryCompetency,
                                                            r.user),
                                     !.during = BetweenDeleteAndInsert(r.user)],
                                  200)]
        /\ UNCHANGED <<Entry, EntryCompetency, nextId>>

\* DELETE: DELETE FROM EntryCompetency WHERE entryID = ?
DeleteDeleteTags(h) ==
    LET r == handler[h]
    IN  /\ UNCHANGED <<req, resp, hist, foreignKey, page>>
        /\ r.op = "DELETE" /\ r.pc = "deleteTags"
        /\ EntryCompetency' = DeleteEntryCompetency(EntryCompetency, r.id)
        /\ handler' = [handler EXCEPT ![h] = [r EXCEPT !.pc = "deleteEntry"]]
        /\ UNCHANGED <<Entry, nextId>>

\* DELETE: DELETE FROM Entry WHERE id = ? AND user = ?, then affectedRows
DeleteDeleteEntry(h) ==
    LET r == handler[h]
        affectedRows == AffectedRows(Entry, r.id, r.user)
    IN  /\ UNCHANGED <<req, resp, hist, foreignKey, page>>
        /\ r.op = "DELETE" /\ r.pc = "deleteEntry"
        /\ UNCHANGED <<EntryCompetency, nextId>>
        /\ IF RefusesDelete(EntryCompetency, OwnedRows(Entry, r.id, r.user))
           THEN /\ handler' = [handler EXCEPT ![h] = Returned(r, 500)]
                /\ UNCHANGED Entry
           ELSE /\ Entry' = DeleteEntry(Entry, r.id, r.user)
                /\ handler' = [handler EXCEPT ![h] =
                                 Returned(r, IF affectedRows = 0 THEN 404
                                             ELSE 200)]

\* PUT: UPDATE Entry SET text = ? WHERE id = ? AND user = ?, then affectedRows
PutUpdate(h) ==
    LET r == handler[h]
        affectedRows == AffectedRows(Entry, r.id, r.user)
    IN  /\ UNCHANGED <<req, resp, hist, foreignKey, page>>
        /\ r.op = "PUT" /\ r.pc = "update"
        /\ Entry' = UpdateEntry(Entry, r.text, r.id, r.user)
        /\ handler' = [handler EXCEPT ![h] =
                         IF affectedRows = 0 THEN Returned(r, 404)
                         ELSE [r EXCEPT !.pc = "deleteTags"]]
        /\ UNCHANGED <<EntryCompetency, nextId>>

\* PutDeleteTags with a fault: the statement is not run
PutSkipsDeleteTags(h) ==
    LET r == handler[h]
    IN  /\ UNCHANGED <<req, resp, hist, foreignKey, page>>
        /\ r.op = "PUT" /\ r.pc = "deleteTags"
        /\ handler' = [handler EXCEPT ![h] =
                         IF r.competencyIDs = <<>> THEN Returned(r, 200)
                         ELSE [r EXCEPT !.pc = "insertTags", !.next = 1]]
        /\ UNCHANGED <<Entry, EntryCompetency, nextId>>

\* PUT: DELETE FROM EntryCompetency WHERE entryID = ?
PutDeleteTags(h) ==
    LET r == handler[h]
        cleared == DeleteEntryCompetency(EntryCompetency, r.id)
        deleted == [r EXCEPT !.removed = Len(EntryCompetency) - Len(cleared)]
    IN  /\ UNCHANGED <<req, resp, hist, foreignKey, page>>
        /\ r.op = "PUT" /\ r.pc = "deleteTags"
        /\ EntryCompetency' = cleared
        /\ handler' = [handler EXCEPT ![h] =
                         IF r.competencyIDs = <<>> THEN Returned(deleted, 200)
                         ELSE [deleted EXCEPT !.pc = "insertTags", !.next = 1]]
        /\ UNCHANGED <<Entry, nextId>>

\* Throws with a fault: the catch block undoes what the handler has written
ThrowsAndRollsBack(h) ==
    /\ Running(h)
    /\ UNCHANGED <<req, resp, hist, foreignKey, page>>
    /\ handler' = [handler EXCEPT ![h] = Returned(handler[h], 500)]
    /\ EntryCompetency' = DeleteEntryCompetency(EntryCompetency, handler[h].id)
    /\ Entry' = IF handler[h].op = "POST"
                THEN DeleteEntry(Entry, handler[h].id, handler[h].user)
                ELSE Entry
    /\ UNCHANGED nextId

\* the statement that invocation h awaits throws (the connection is lost,
\* the server refuses the statement): the catch block logs and answers 500
Throws(h) ==
    /\ Running(h)
    /\ UNCHANGED <<req, resp, hist, foreignKey, page>>
    /\ handler' = [handler EXCEPT ![h] = Returned(handler[h], 500)]
    /\ UNCHANGED <<Entry, EntryCompetency, nextId>>

Arrives(h) ==
    \E user \in Users :
        \/ StartGET(h, user)
        \/ \E id \in EntryIds : StartDELETE(h, user, id)
        \/ \E text \in Texts, competencyIDs \in CompetencyIDLists :
              \/ StartPOST(h, user, text, competencyIDs)
              \/ \E id \in EntryIds : StartPUT(h, user, id, text, competencyIDs)

NextStatements ==
    \E h \in Handlers :
        \/ Arrives(h)
        \/ PostInsertEntry(h)
        \/ InsertTag(h)
        \/ GetSelect(h)
        \/ DeleteDeleteTags(h)
        \/ DeleteDeleteEntry(h)
        \/ PutUpdate(h)
        \/ PutDeleteTags(h)
        \/ Throws(h)

SpecStatements == InitStatements /\ [][NextStatements]_vars

(***************************************************************************)
(* Properties of SpecStatements.                                           *)
(***************************************************************************)
\* C12: every row of EntryCompetency carries the id of a row of Entry, in
\* every state that the interleaved statements of POST, PUT and DELETE
\* reach.
C12_TagRowsReferenceEntries ==
    \A k \in 1..Len(EntryCompetency) :
        EntryCompetency[k].entryID \in IdsOf(Entry)

\* the array of competencies of a GET row holds no id (it is [null])
NoIds(competencies) ==
    \A j \in 1..Len(competencies) : competencies[j] = Absent

\* C13: the tag delete of a PUT with a non-empty competencyIDs is a step of
\* its own, ahead of the first tag insert: in the state it leaves, the entry
\* has no tag row and a SELECT of the owner returns the entry with no
\* competency id; and a GET answers with what the tables hold at the moment
\* of its SELECT.
C13_TagDeleteIsVisible ==
    [][/\ \A p \in Handlers :
             (/\ handler[p].op = "PUT"
              /\ handler[p].pc = "deleteTags"
              /\ handler'[p].pc = "insertTags")
                 => LET id == handler[p].id
                        rows == SelectEntries(Entry', EntryCompetency',
                                              handler[p].user)
                    IN  /\ handler'[p].next = 1
                        /\ TagIds(EntryCompetency', id) = {}
                        /\ \A k \in RowsOf(rows, id) : NoIds(rows[k].competencies)
       /\ \A g \in Handlers :
             (/\ handler[g].op = "GET"
              /\ handler[g].pc = "select"
              /\ handler'[g].status = 200)
                 => handler'[g].rows
                       = SelectEntries(Entry, EntryCompetency, handler[g].user)]_vars

\* a GET of the owner ran its SELECT while a PUT on an entry with tags sat
\* between its tag delete and its first tag insert, and returned the entry
\* with no competency id
C13_Witness ==
    \E g \in Handlers : \E p \in handler[g].during :
        /\ handler[g].op = "GET"
        /\ handler[g].status = 200
        /\ handler[p].competencyIDs # <<>>
        /\ handler[p].removed > 0
        /\ \E k \in RowsOf(handler[g].rows, handler[p].id) :
              NoIds(handler[g].rows[k].competencies)

\* the competency ids of the tag rows of entry id, in table order
TagsInOrder(EC, id) ==
    LET rows == SelectSeq(EC, LAMBDA row : row.entryID = id)
    IN  [k \in 1..Len(rows) |-> rows[k].competencyID]

\* invocation h runs while no other request has arrived
Alone(h) == \A g \in Handlers \ {h} : handler[g].pc = "idle"

\* C14: when a statement of a handler throws, the handler answers 500 and
\* the tables stay as the statements run so far left them.  For a handler
\* that ran alone: a POST that fails in its loop of tag inserts leaves its
\* Entry row with the tags inserted so far; a PUT that fails at its tag
\* delete leaves the new text with the old tags, and a PUT that fails in its
\* loop of tag inserts leaves the new text with the tags inserted so far.
C14_NoRollback ==
    [][\A h \in Handlers :
          (Running(h) /\ handler'[h].status = 500)
              => LET r == handler[h]
                     stored == [id |-> r.id, user |-> r.user, text |-> r.text]
                     soFar == SubSeq(r.competencyIDs, 1, r.next - 1)
                 IN  /\ handler'[h].pc = "done"
                     /\ UNCHANGED <<Entry, EntryCompetency, nextId>>
                     /\ (Alone(h) /\ r.pc = "insertTags")
                           => /\ stored \in Entry'
                              /\ TagsInOrder(EntryCompetency', r.id) = soFar
                     /\ (Alone(h) /\ r.op = "PUT" /\ r.pc = "deleteTags")
                           => stored \in Entry']_vars

\* a POST that ran alone answered 500 after the first of its two tag
\* inserts: the entry is stored with that one tag
C14_Witness ==
    \E h \in Handlers :
        /\ Alone(h)
        /\ handler[h].op = "POST"
        /\ handler[h].status = 500
        /\ Len(handler[h].competencyIDs) = 2
        /\ handler[h].next = 2
        /\ \E e \in Entry : e.id = handler[h].id /\ e.text = handler[h].text
        /\ TagsInOrder(EntryCompetency, handler[h].id)
              = <<handler[h].competencyIDs[1]>>

\* C18: once two PUTs of the owner on the same entry have both answered 200,
\* the stored text and the stored tags of the entry are the text and the
\* competencyIDs of one of the two requests.
C18_ConcurrentPutsLinearize ==
    \A p \in Handlers : \A q \in Handlers \ {p} :
        (/\ handler[p].op = "PUT" /\ handler[p].status = 200
         /\ handler[q].op = "PUT" /\ handler[q].status = 200
         /\ handler[p].id = handler[q].id
         /\ handler[p].user = handler[q].user)
            => \E w \in {p, q} :
                  /\ [id |-> handler[w].id, user |-> handler[w].user,
                      text |-> handler[w].text] \in Entry
                  /\ TagsInOrder(EntryCompetency, handler[w].id)
                        = handler[w].competencyIDs

(***************************************************************************)
(* SpecView: the Thoughts page of one signed-in user, in front of the      *)
(* whole handlers of Spec.  A handler of the page that awaits a fetch is   *)
(* three steps: the call up to the await, which sends the request with the *)
(* values of the render it was called in; the route handler serving the    *)
(* request; and the rest of the page's handler once the response is there. *)
(* Between them the user goes on clicking: the page has no guard against   *)
(* a second request while one is in flight.                                *)
(*                                                                         *)
(* A competency list of the page is the JSON array as GET sent it, its     *)
(* elements Some(id).  The entries stored when the page opens carry one    *)
(* tag each.                                                               *)
(***************************************************************************)
\* the user whose session cookie the browser sends
PageUser == "ann"

\* the competencyIDs of the POST that stored entry i
FirstTags(i) == <<((i - 1) % NumCompetencies) + 1>>

RECURSIVE StoredTags(_, _)
\* the tag rows of entries 1..n, entry i carrying the list tags[i]
StoredTags(tags, n) ==
    IF n = 0 THEN <<>>
    ELSE InsertCompetencies(StoredTags(tags, n - 1), n, tags[n])

\* the database when the page opens: the user's POSTs have stored the
\* entries 1..MaxId; the page sends the fetch of loadThoughts
InitView ==
    /\ LET tags == [i \in EntryIds |-> FirstTags(i)]
       IN /\ Entry = {[id |-> i, user |-> PageUser, text |-> "t1"] : i \in EntryIds}
          /\ EntryCompetency = StoredTags(tags, MaxId)
          /\ hist = [posted |-> [i \in EntryIds |-> Some(PageUser)],
                     text |-> [i \in EntryIds |-> Some("t1")],
                     tags |-> [i \in EntryIds |-> Some(tags[i])],
                     deleted |-> {}]
    /\ nextId = MaxId + 1
    /\ req = Request("none", [present |-> FALSE, email |-> ""], NoPath, Absent)
    /\ resp = Response(0, Absent, <<>>)
    /\ handler = [h \in Handlers |-> Idle]
    /\ foreignKey = FALSE
    /\ thoughts = <<>>
    /\ editing = Absent
    /\ newText = ""
    /\ newCompetencies = <<>>
    /\ pending = [f \in Fetches |->
                    IF f = 0 THEN [NoFetch EXCEPT !.method = "GET", !.at = "sent"]
                    ELSE NoFetch]
    /\ event = "none"
    /\ told = [deleted |-> {}, saved |-> [i \in EntryIds |-> Absent]]

\* `/api/entry/${id}`
EntryPath(id) == CollectionPath \o <<"/", IdStr(id)>>

\* res.ok
Ok(status) == status \in 200..299

\* JSON.stringify of a competency list of the page, as req.json() reads it
Stringified(competencies) ==
    [k \in 1..Len(competencies) |-> competencies[k][1]]

\* the fetch that the next call of fetch uses
NextFetch(f) ==
    /\ f # 0
    /\ pending[f].at = "free"
    /\ \A g \in 1..(f - 1) : pending[g].at # "free"

\* the handler has run to its end
Done == [NoFetch EXCEPT !.at = "done"]

Answered(f, method) ==
    pending[f].method = method /\ pending[f].at = "answered"

(***************************************************************************)
(* The route handlers serving the fetches of the page.                     *)
(***************************************************************************)
ServeGET(f) ==
    /\ pending[f].method = "GET" /\ pending[f].at = "sent"
    /\ GET(SessionOf(PageUser))
    /\ pending' = [pending EXCEPT ![f] = [@ EXCEPT !.at = "answered",
                                                   !.ok = Ok(resp'.status),
                                                   !.data = resp'.rows]]
    /\ event' = "other"
    /\ UNCHANGED <<handler, foreignKey, thoughts, editing, newText,
                   newCompetencies, told>>

ServeDELETE(f) ==
    /\ pending[f].method = "DELETE" /\ pending[f].at = "sent"
    /\ DELETE(SessionOf(PageUser), EntryPath(pending[f].id), FALSE)
    /\ pending' = [pending EXCEPT ![f] = [@ EXCEPT !.at = "answered",
                                                   !.ok = Ok(resp'.status)]]
    /\ event' = "other"
    /\ UNCHANGED <<handler, foreignKey, thoughts, editing, newText,
                   newCompetencies, told>>

ServePUT(f) ==
    /\ pending[f].method = "PUT" /\ pending[f].at = "sent"
    /\ PUT(SessionOf(PageUser), EntryPath(pending[f].id),
           [text |-> Some(pending[f].text),
            competencyIDs |-> Some(Stringified(pending[f].competencyIDs))],
           FALSE)
    /\ pending' = [pending EXCEPT ![f] = [@ EXCEPT !.at = "answered",
                                                   !.ok = Ok(resp'.status)]]
    /\ event' = "other"
    /\ UNCHANGED <<handler, foreignKey, thoughts, editing, newText,
                   newCompetencies, told>>

(***************************************************************************)
(* The page.                                                               *)
(***************************************************************************)
\* data.map((row) => ({id, text, time, competencies})); time is only shown
Formatted(data) ==
    [k \in 1..Len(data) |-> [id |-> data[k].id, text |-> data[k].text,
                             competencies |-> data[k].competencies]]

\* loadThoughts after its await
LoadThoughts(f) ==
    /\ Answered(f, "GET")
    /\ thoughts' = IF ~pending[f].ok THEN thoughts
                   ELSE Formatted(pending[f].data)
    /\ pending' = [pending EXCEPT ![f] = Done]
    /\ event' = "other"
    /\ UNCHANGED <<Entry, EntryCompetency, nextId, req, resp, hist, handler,
                   foreignKey, editing, newText, newCompetencies, told>>

\* handleDelete up to its await: the Delete button of thought id
HandleDelete(f, id) ==
    /\ NextFetch(f)
    /\ \E k \in 1..Len(thoughts) : thoughts[k].id = id
    /\ pending' = [pending EXCEPT ![f] =
                     [NoFetch EXCEPT !.method = "DELETE", !.id = id,
                                     !.thoughts = thoughts, !.at = "sent"]]
    /\ event' = "other"
    /\ UNCHANGED <<Entry, EntryCompetency, nextId, req, resp, hist, handler,
                   foreignKey, thoughts, editing, newText, newCompetencies,
                   told>>

\* thoughts.filter((thought) => thought.id !== id)
Without(cached, id) == SelectSeq(cached, LAMBDA thought : thought.id # id)

\* handleDelete after its await
DeleteAnswered(f) ==
    LET c == pending[f]
    IN  /\ Answered(f, "DELETE")
        /\ thoughts' = IF ~c.ok THEN thoughts ELSE Without(c.thoughts, c.id)
        /\ told' = IF ~c.ok THEN told
                   ELSE [told EXCEPT !.deleted = @ \cup {c.id}]
        /\ pending' = [pending EXCEPT ![f] = Done]
        /\ event' = "other"
        /\ UNCHANGED <<Entry, EntryCompetency, nextId, req, resp, hist,
                       handler, foreignKey, editing, newText, newCompetencies>>

\* handleEdit: the Edit button of the k-th thought shown
HandleEdit(k) ==
    /\ k \in 1..Len(thoughts)
    /\ editing' = Some(thoughts[k].id)
    /\ newText' = thoughts[k].text
    /\ newCompetencies' = thoughts[k].competencies
    /\ event' = "edit"
    /\ UNCHANGED <<Entry, EntryCompetency, nextId, req, resp, hist, handler,
                   foreignKey, thoughts, pending, told>>

\* onChange of the textarea of the edit form
TextChange(text) ==
    /\ editing # Absent
    /\ newText' = text
    /\ event' = "other"
    /\ UNCHANGED <<Entry, EntryCompetency, nextId, req, resp, hist, handler,
                   foreignKey, thoughts, editing, newCompetencies, pending,
                   told>>

\* Toggled with a fault: the id is appended whether or not it is included
ToggledByAppending(prevCompetencies, competencyId) ==
    Append(prevCompetencies, competencyId)

\* the updater of handleCompetencyChange
Toggled(prevCompetencies, competencyId) ==
    IF \E k \in 1..Len(prevCompetencies) : prevCompetencies[k] = competencyId
    THEN SelectSeq(prevCompetencies, LAMBDA id : id # competencyId)
    ELSE Append(prevCompetencies, competencyId)

\* handleCompetencyChange: a checkbox of the edit form
HandleCompetencyChange(competencyId) ==
    /\ editing # Absent
    /\ newCompetencies' = Toggled(newCompetencies, Some(competencyId))
    /\ event' = "toggle"
    /\ UNCHANGED <<Entry, EntryCompetency, nextId, req, resp, hist, handler,
                   foreignKey, thoughts, editing, newText, pending, told>>

\* the Cancel button of the edit form: setEditing(null)
Cancel ==
    /\ editing # Absent
    /\ editing' = Absent
    /\ event' = "cancel"
    /\ UNCHANGED <<Entry, EntryCompetency, nextId, req, resp, hist, handler,
                   foreignKey, thoughts, newText, newCompetencies, pending,
                   told>>

\* handleSaveEdit up to its await: the Save Changes button of the edit form
HandleSaveEdit(f) ==
    /\ NextFetch(f)
    /\ editing # Absent
    /\ pending' = [pending EXCEPT ![f] =
                     [NoFetch EXCEPT !.method = "PUT", !.id = editing[1],
                                     !.text = newText,
                                     !.competencyIDs = newCompetencies,
                                     !.thoughts = thoughts, !.at = "sent"]]
    /\ event' = "other"
    /\ UNCHANGED <<Entry, EntryCompetency, nextId, req, resp, hist, handler,
                   foreignKey, thoughts, editing, newText, newCompetencies,
                   told>>

\* thoughts.map((thought) => thought.id === editing.id ? {...} : thought)
WithDraft(cached, id, text, competencies) ==
    [k \in 1..Len(cached) |->
        IF cached[k].id = id
        THEN [cached[k] EXCEPT !.text = text, !.competencies = competencies]
        ELSE cached[k]]

\* SaveAnswered with a fault: res.ok is not looked at
SaveAnsweredWhateverTheStatus(f) ==
    LET c == pending[f]
    IN  /\ Answered(f, "PUT")
        /\ thoughts' = WithDraft(c.thoughts, c.id, c.text, c.competencyIDs)
        /\ editing' = Absent
        /\ newText' = ""
        /\ newCompetencies' = <<>>
        /\ told' = told
        /\ pending' = [pending EXCEPT ![f] = Done]
        /\ event' = "other"
        /\ UNCHANGED <<Entry, EntryCompetency, nextId, req, resp, hist,
                       handler, foreignKey>>

\* handleSaveEdit after its await
SaveAnswered(f) ==
    LET c == pending[f]
    IN  /\ Answered(f, "PUT")
        /\ IF ~c.ok
           THEN UNCHANGED <<thoughts, editing, newText, newCompetencies, told>>
           ELSE /\ thoughts' = WithDraft(c.thoughts, c.id, c.text,
                                         c.competencyIDs)
                /\ editing' = Absent
                /\ newText' = ""
                /\ newCompetencies' = <<>>
                /\ told' = [told EXCEPT !.saved[c.id] =
                              Some([text |-> c.text,
                                    competencies |-> c.competencyIDs])]
        /\ pending' = [pending EXCEPT ![f] = Done]
        /\ event' = "other"
        /\ UNCHANGED <<Entry, EntryCompetency, nextId, req, resp, hist,
                       handler, foreignKey>>

NextView ==
    \/ \E f \in Fetches :
          \/ ServeGET(f)
          \/ ServeDELETE(f)
          \/ ServePUT(f)
          \/ LoadThoughts(f)
          \/ \E id \in EntryIds : HandleDelete(f, id)
          \/ DeleteAnswered(f)
          \/ HandleSaveEdit(f)
          \/ SaveAnswered(f)
    \/ \E k \in 1..MaxId : HandleEdit(k)
    \/ \E text \in Texts : TextChange(text)
    \/ \E competencyId \in Competency : HandleCompetencyChange(competencyId)
    \/ Cancel

SpecView == InitView /\ [][NextView]_vars

IdSet(competencies) == {competencies[k] : k \in 1..Len(competencies)}

\* C17: handleEdit sets newText and newCompetencies to the cached text and
\* competencies of the thought it is called on, whatever they held; Cancel
\* and a checkbox toggle leave the cached thoughts as they are and send no
\* request; a toggle flips the membership of one competency id in
\* newCompetencies and of no other, so that toggling the same id twice gives
\* the same set of ids.
C17_DraftHandlers ==
    [][/\ event' = "edit"
             => /\ editing' # Absent
                /\ \E k \in 1..Len(thoughts) :
                      /\ thoughts[k].id = editing'[1]
                      /\ newText' = thoughts[k].text
                      /\ newCompetencies' = thoughts[k].competencies
       /\ event' \in {"cancel", "toggle"}
             => UNCHANGED <<thoughts, pending, Entry, EntryCompetency, req, resp>>
       /\ event' = "toggle"
             => \E competencyId \in Competency :
                   LET before == IdSet(newCompetencies)
                       after == IdSet(newCompetencies')
                       c == Some(competencyId)
                   IN  /\ after \ {c} = before \ {c}
                       /\ c \in after <=> c \notin before
                       /\ IdSet(Toggled(newCompetencies', c)) = before]_vars

\* handleEdit ran on a thought whose earlier save was answered ok and reset
\* the draft: the draft holds the text that save cached
C17_Witness ==
    /\ event = "edit"
    /\ editing # Absent
    /\ told.saved[editing[1]] # Absent
    /\ newText = "t2"
    /\ \E k \in 1..Len(thoughts) :
          /\ thoughts[k].id = editing[1]
          /\ thoughts[k].text = newText
          /\ thoughts[k].competencies = newCompetencies

\* no fetch of the page is in flight, and loadThoughts has run
Settled ==
    /\ pending[0].at = "done"
    /\ \A f \in Fetches : pending[f].at \in {"free", "done"}

\* C19: once every fetch of the page has completed, no thought whose DELETE
\* was answered ok is cached, and a thought whose save was answered ok is
\* cached with the text and tags of its last such save (the last the page
\* saw answered, or the last the server ran).
C19_CacheIsConsistent ==
    Settled
        => \A k \in 1..Len(thoughts) :
              LET t == thoughts[k]
              IN  /\ t.id \notin told.deleted
                  /\ told.saved[t.id] # Absent
                        => \/ /\ t.text = told.saved[t.id][1].text
                              /\ t.competencies = told.saved[t.id][1].competencies
                           \/ /\ Some(t.text) = hist.text[t.id]
                              /\ Some(Stringified(t.competencies)) = hist.tags[t.id]

====
